---------------------------- MODULE Spec2Model ----------------------------
(***************************************************************************)
(* Model of the lending order pipeline of tomodex:                         *)
(*   - the subscription registry (ws.LendingMarketsSocket, and its         *)
(*     lock-free twin ws.PriceBoardSocket),                                *)
(*   - the change stream watcher's status mapping (HandleDocumentType),    *)
(*   - the event dispatcher (HandleLendingOrderResponse),                  *)
(*   - the bulk aggregator (saveBulkLendingOrders /                        *)
(*     processBulkLendingOrders).                                          *)
(* Every action is one whole call of the operation it is named after.      *)
(***************************************************************************)
EXTENDS Integers, Sequences, FiniteSets, TLC

VARIABLES
    subscriptions,      \* map[string]map[*Client]bool   (forward index)
    subscriptionsList,  \* map[*Client][]string          (inverse index)
    regOp,              \* history: the last registry call, its result and its sends
    subCount,           \* history: Subscribe calls per (channel, client) since its removal
    unsubscribed,       \* history: clients whose Unsubscribe returned, not subscribed since
    bulkLendingOrders,  \* map[string]map[common.Hash]*types.LendingOrder
    accepted,           \* history: the orders saveBulkLendingOrders took since the last flush
    svcOp,              \* history: the last service call, its result and the calls it made
    msgOp,              \* history: the last broker message consumed and the calls it made
    mutext,             \* sync.RWMutex of the service: who holds it
    flushTask,          \* where the flush goroutine stands in processBulkLendingOrders
    saveTask,           \* where a dispatcher goroutine stands in saveBulkLendingOrders
    watcher,            \* where the watchChanges call of each document type stands
    process,            \* whether the process runs or has died of a panic
    shutdown,           \* whether the external shutdown signal has been raised
    subsMutex,          \* sync.RWMutex of the registry's forward index: its holders
    subsListMutex,      \* sync.RWMutex of the registry's inverse index: its holders
    regTask             \* where each goroutine calling the registry stands

regVars == <<subscriptions, subscriptionsList, regOp, subCount, unsubscribed>>

svcVars == <<bulkLendingOrders, accepted, svcOp>>

inVars == <<msgOp>>

lockVars == <<mutext, flushTask, saveTask>>

taskVars == <<watcher, process, shutdown>>

rlVars == <<subsMutex, subsListMutex, regTask>>

vars == <<regVars, svcVars, inVars, lockVars, taskVars, rlVars>>

---------------------------------------------------------------------------
(* Bounds and input sets                                                   *)

\* longest channel list kept for one client (Subscribe appends without limit)
MaxSubs == 3

\* most orders saveBulkLendingOrders takes between two flushes
MaxWindow == 2

\* the same, in the runs that are checked for liveness
MaxLiveWindow == 1
\* longest channel list of a client in the statement-level model of the registry
MaxLockSubs == 1

ChannelIDs == {"chA", "chB"}
Clients == {"c1", "c2"}
\* the nil *Client
NilClient == "nil"
Payloads == {"p1", "p2"}
\* a nil error
NoErr == "nil"

---------------------------------------------------------------------------
(* Go map and slice primitives                                             *)

EmptyMap == <<>>

MapHas(m, k) == k \in DOMAIN m

MapPut(m, k, v) == [x \in (DOMAIN m) \cup {k} |-> IF x = k THEN v ELSE m[x]]

MapDelete(m, k) == [x \in (DOMAIN m) \ {k} |-> m[x]]

\* every order in which a range loop may visit the keys of a map
RangeOrders(S) ==
    {s \in [1..Cardinality(S) -> S] : \A i, j \in 1..Cardinality(S) : i # j => s[i] # s[j]}

\* s.subscriptions[channelID][c]: a read through a missing map yields false
IsSubscribed(subs, channelID, c) ==
    /\ MapHas(subs, channelID)
    /\ MapHas(subs[channelID], c)
    /\ subs[channelID][c]

---------------------------------------------------------------------------
(* Subscription registry                                                   *)

SubscribeErrNoNilCheck(c) == NoErr

\* the error Subscribe returns
SubscribeErr(c) == IF c = NilClient THEN "No connection found" ELSE NoErr

\* forward index after Subscribe
SubscribeSubs(subs, channelID, c) ==
    LET inner == IF MapHas(subs, channelID) THEN subs[channelID] ELSE EmptyMap
    IN  MapPut(subs, channelID, MapPut(inner, c, TRUE))

\* inverse index after Subscribe
SubscribeList(list, channelID, c) ==
    LET old == IF MapHas(list, c) THEN list[c] ELSE <<>>
    IN  MapPut(list, c, Append(old, channelID))

UnsubscribeChannelSubsToggle(subs, channelID, c) ==
    IF IsSubscribed(subs, channelID, c)
    THEN MapPut(subs, channelID, MapDelete(subs[channelID], c))
    ELSE SubscribeSubs(subs, channelID, c)

UnsubscribeChannelSubsDropsChannel(subs, channelID, c) ==
    MapDelete(subs, channelID)

\* forward index after UnsubscribeChannel
UnsubscribeChannelSubs(subs, channelID, c) ==
    IF IsSubscribed(subs, channelID, c)
    THEN MapPut(subs, channelID, MapDelete(MapPut(subs[channelID], c, FALSE), c))
    ELSE subs

RECURSIVE UnsubscribeLoop(_, _, _)
\* the loop of Unsubscribe over the client's channel list
UnsubscribeLoop(subs, ids, c) ==
    IF ids = <<>> THEN subs
    ELSE UnsubscribeLoop(UnsubscribeChannelSubs(subs, Head(ids), c), Tail(ids), c)

UnsubscribeSubsFirstOnly(subs, list, c) ==
    IF ~MapHas(list, c) THEN subs
    ELSE UnsubscribeLoop(subs, SubSeq(list[c], 1, 1), c)

\* forward index after Unsubscribe
UnsubscribeSubs(subs, list, c) ==
    IF ~MapHas(list, c) THEN subs
    ELSE UnsubscribeLoop(subs, list[c], c)

BroadcastTargetsAnyChannel(subs, channelID) ==
    {c \in Clients \cup {NilClient} : \E ch \in DOMAIN subs : IsSubscribed(subs, ch, c)}

\* the clients BroadcastMessage sends to: the entries of subs[channelID] with status true
BroadcastTargets(subs, channelID) ==
    IF MapHas(subs, channelID)
    THEN {c \in DOMAIN subs[channelID] : subs[channelID][c]}
    ELSE {}

\* SendUpdateMessage(c, data)
UpdateMessage(c, data) == [to |-> c, msgType |-> "UPDATE", data |-> data]

RegCall(op, channelID, c, p, err, sent, dup) ==
    [op |-> op, channelID |-> channelID, c |-> c, p |-> p, err |-> err,
     sent |-> sent, dup |-> dup]

Subscribe(channelID, c) ==
    IF SubscribeErr(c) # NoErr
    THEN /\ regOp' = RegCall("Subscribe", channelID, c, "", SubscribeErr(c), <<>>, 0)
         /\ UNCHANGED <<subscriptions, subscriptionsList, subCount, unsubscribed>>
         /\ UNCHANGED <<svcVars, inVars, lockVars, taskVars, rlVars>>
    ELSE /\ IF MapHas(subscriptionsList, c) THEN Len(subscriptionsList[c]) < MaxSubs ELSE TRUE
         /\ subscriptions' = SubscribeSubs(subscriptions, channelID, c)
         /\ subscriptionsList' = SubscribeList(subscriptionsList, channelID, c)
         /\ regOp' = RegCall("Subscribe", channelID, c, "", NoErr, <<>>, 0)
         /\ subCount' = [subCount EXCEPT ![<<channelID, c>>] = @ + 1]
         /\ unsubscribed' = unsubscribed \ {c}
         /\ UNCHANGED <<svcVars, inVars, lockVars, taskVars, rlVars>>

UnsubscribeChannel(channelID, c) ==
    /\ subscriptions' = UnsubscribeChannelSubs(subscriptions, channelID, c)
    /\ regOp' = RegCall("UnsubscribeChannel", channelID, c, "", NoErr, <<>>,
                        subCount[<<channelID, c>>])
    /\ subCount' = [subCount EXCEPT ![<<channelID, c>>] = 0]
    /\ UNCHANGED <<subscriptionsList, unsubscribed>>
    /\ UNCHANGED <<svcVars, inVars, lockVars, taskVars, rlVars>>

Max(S) == CHOOSE x \in S : \A y \in S : y <= x

Unsubscribe(c) ==
    /\ subscriptions' = UnsubscribeSubs(subscriptions, subscriptionsList, c)
    /\ regOp' = RegCall("Unsubscribe", "", c, "", NoErr, <<>>,
                        Max({subCount[<<ch, c>>] : ch \in ChannelIDs}))
    /\ subCount' = [k \in DOMAIN subCount |-> IF k[2] = c THEN 0 ELSE subCount[k]]
    /\ unsubscribed' = unsubscribed \cup {c}
    /\ UNCHANGED subscriptionsList
    /\ UNCHANGED <<svcVars, inVars, lockVars, taskVars, rlVars>>

BroadcastMessage(channelID, p) ==
    /\ \E order \in RangeOrders(BroadcastTargets(subscriptions, channelID)) :
          regOp' = RegCall("BroadcastMessage", channelID, "", p, NoErr,
                           [i \in DOMAIN order |-> UpdateMessage(order[i], p)], 0)
    /\ UNCHANGED <<subscriptions, subscriptionsList, subCount, unsubscribed>>
    /\ UNCHANGED <<svcVars, inVars, lockVars, taskVars, rlVars>>

---------------------------------------------------------------------------
(* Lending orders, change events and engine responses                      *)

LENDING_EVENT == "ORDER"
REPAY_EVENT == "REPAY"
TOPUP_EVENT == "TOPUP"
RECALL_EVENT == "RECALL"

DocTypes == {LENDING_EVENT, TOPUP_EVENT, REPAY_EVENT, RECALL_EVENT}

\* types.LendingStatus*: the storage statuses HandleDocumentType tests for
MappedStatuses ==
    {"OPEN", "CANCELLED", "FILLED", "PARTIAL_FILLED", "REPAY", "TOPUP", "RECALL", "REJECTED"}

\* statuses outside the table: the empty string and one the table does not name
UnmappedStatuses == {"", "NEW"}

\* types.LENDING_ORDER_* and types.ERROR_STATUS: the cases of the dispatcher's switch
DispatchedStatuses ==
    {"LENDING_ORDER_ADDED", "LENDING_ORDER_CANCELLED", "LENDING_ORDER_REJECTED",
     "LENDING_ORDER_PARTIALLY_FILLED", "LENDING_ORDER_FILLED", "LENDING_ORDER_REPAYED",
     "LENDING_ORDER_TOPUPED", "LENDING_ORDER_RECALLED", "LENDING_ORDER_TOPUP_REJECTED",
     "LENDING_ORDER_REPAY_REJECTED", "LENDING_ORDER_RECALL_REJECTED", "ERROR_STATUS"}

\* response statuses the switch has no case for
UnknownStatuses == {"", "LENDING_ORDER_MATCHED"}

Hashes == {"h1", "h2", "h3"}

\* a lending order; its hash fixes everything but its status
LendingOrder(hash, status) ==
    [hash |-> hash,
     userAddress |-> IF hash = "h2" THEN "u2" ELSE "u1",
     side |-> IF hash = "h2" THEN "LEND" ELSE "BORROW",
     term |-> IF hash = "h3" THEN 30 ELSE 7,
     lendingToken |-> "K1",
     interest |-> IF hash = "h2" THEN 12 ELSE 5,
     status |-> status]

\* a nil *types.LendingOrder
NilOrder ==
    [hash |-> "nil", userAddress |-> "", side |-> "", term |-> 0, lendingToken |-> "",
     interest |-> 0, status |-> ""]

\* the documents a change stream delivers to one watcher
AllDocuments ==
    {LendingOrder(h, st) : h \in Hashes, st \in MappedStatuses \cup UnmappedStatuses}
        \cup {NilOrder}

EngineResponse(status, o) == [status |-> status, lendingOrder |-> o]

SvcCall(op, status, o, docType, ret, effects, window) ==
    [op |-> op, status |-> status, order |-> o, docType |-> docType, ret |-> ret,
     effects |-> effects, window |-> window]

---------------------------------------------------------------------------
(* Change stream watcher                                                   *)

RejectedStatusSwapped(docType) ==
    IF docType = LENDING_EVENT THEN "LENDING_ORDER_REJECTED"
    ELSE IF docType = RECALL_EVENT THEN "LENDING_ORDER_RECALL_REJECTED"
    ELSE IF docType = TOPUP_EVENT THEN "LENDING_ORDER_REPAY_REJECTED"
    ELSE IF docType = REPAY_EVENT THEN "LENDING_ORDER_TOPUP_REJECTED"
    ELSE ""

\* the four ifs of the rejected branch, the last one that matches deciding
RejectedStatus(docType) ==
    IF docType = LENDING_EVENT THEN "LENDING_ORDER_REJECTED"
    ELSE IF docType = RECALL_EVENT THEN "LENDING_ORDER_RECALL_REJECTED"
    ELSE IF docType = TOPUP_EVENT THEN "LENDING_ORDER_TOPUP_REJECTED"
    ELSE IF docType = REPAY_EVENT THEN "LENDING_ORDER_REPAY_REJECTED"
    ELSE ""

\* res.Status as the if chain of HandleDocumentType leaves it ("" when nothing matched)
ResponseStatus(status, docType) ==
    IF status = "OPEN" THEN "LENDING_ORDER_ADDED"
    ELSE IF status = "CANCELLED" THEN "LENDING_ORDER_CANCELLED"
    ELSE IF status = "FILLED" THEN "LENDING_ORDER_FILLED"
    ELSE IF status = "PARTIAL_FILLED" THEN "LENDING_ORDER_PARTIALLY_FILLED"
    ELSE IF status = "REPAY" THEN "LENDING_ORDER_REPAYED"
    ELSE IF status = "TOPUP" THEN "LENDING_ORDER_TOPUPED"
    ELSE IF status = "RECALL" THEN "LENDING_ORDER_RECALLED"
    ELSE IF status = "REJECTED" THEN RejectedStatus(docType)
    ELSE ""

\* s.broker.PublishLendingOrderResponse(res) and the error it returned
Publish(res, err) == [call |-> "PublishLendingOrderResponse", res |-> res, err |-> err]

HandleDocumentTypeEffectsAlways(doc, docType, pubErr) ==
    IF doc = NilOrder THEN <<>>
    ELSE <<Publish(EngineResponse(ResponseStatus(doc.status, docType), doc), pubErr)>>

\* the calls HandleDocumentType makes
HandleDocumentTypeEffects(doc, docType, pubErr) ==
    IF doc = NilOrder THEN <<>>
    ELSE IF ResponseStatus(doc.status, docType) # ""
         THEN <<Publish(EngineResponse(ResponseStatus(doc.status, docType), doc), pubErr)>>
         ELSE <<>>

HandleDocumentTypeRetSwallowed(doc, docType, pubErr) == NoErr

\* the error HandleDocumentType returns
HandleDocumentTypeRet(doc, docType, pubErr) ==
    IF doc = NilOrder THEN NoErr
    ELSE IF ResponseStatus(doc.status, docType) # "" THEN pubErr
         ELSE NoErr

\* one change event handled by the watcher of docType; pubErr is what the broker answers
HandleDocumentType(doc, docType, pubErr) ==
    /\ svcOp' = SvcCall("HandleDocumentType", "", doc, docType,
                        HandleDocumentTypeRet(doc, docType, pubErr),
                        HandleDocumentTypeEffects(doc, docType, pubErr), <<>>)
    /\ UNCHANGED <<bulkLendingOrders, accepted>>
    /\ UNCHANGED <<regVars, inVars, lockVars, taskVars, rlVars>>

---------------------------------------------------------------------------
(* Conversions                                                             *)

Digits == <<"0", "1", "2", "3", "4", "5", "6", "7", "8", "9">>

RECURSIVE FormatUint(_)
\* strconv.FormatUint(n, 10): the decimal digits of n, most significant first
FormatUint(n) ==
    IF n < 10 THEN <<Digits[n + 1]>>
    ELSE FormatUint(n \div 10) \o <<Digits[(n % 10) + 1]>>

\* (*big.Int).String(): the decimal digits, after a minus sign when negative
BigIntString(n) == IF n < 0 THEN <<"-">> \o FormatUint(0 - n) ELSE FormatUint(n)

\* common.Hash.Hex(): the hash in hexadecimal after "0x"
Hex(hash) == <<"0x", hash>>

\* utils.GetLendingOrderBookChannelID(term, lendingToken): "<term>::<token>"
GetLendingOrderBookChannelID(term, lendingToken) == <<FormatUint(term), "::", lendingToken>>

---------------------------------------------------------------------------
(* Event dispatcher                                                        *)

\* ws.SendLendingOrderMessage(msgType, addr, payload)
SendLendingOrderMessage(msgType, addr, payload) ==
    [call |-> "SendLendingOrderMessage", msgType |-> msgType, addr |-> addr,
     payload |-> payload]

\* ws.SendNotificationMessage(msgType, addr, notifications)
SendNotificationMessage(msgType, addr, notifications) ==
    [call |-> "SendNotificationMessage", msgType |-> msgType, addr |-> addr,
     payload |-> notifications]

\* the types.Notification every handler builds
Notification(o, messageType) ==
    [recipient |-> o.userAddress,
     message |-> [messageType |-> messageType, description |-> Hex(o.hash)],
     type |-> "TypeLog", status |-> "StatusUnread"]

\* s.notificationDao.Create(n) and the error it returned
Create(n, err) == [call |-> "notificationDao.Create", notification |-> n, err |-> err]

\* what Create hands back: the stored notifications, nothing when it failed
Created(n, err) == IF err = NoErr THEN <<n>> ELSE <<>>

\* s.lendingTradeDao.GetByHash(hash) and the error it returned (the handlers drop it)
GetByHash(hash, err) == [call |-> "lendingTradeDao.GetByHash", hash |-> hash, err |-> err]

\* what GetByHash hands back: the trade of the order, nil when it failed
LendingTrade(hash, err) ==
    IF err = NoErr THEN [tradeOf |-> hash] ELSE [tradeOf |-> "nil"]

\* handleLendingOrderAdded
handleLendingOrderAdded(res, createErr) ==
    LET o == res.lendingOrder
        n == Notification(o, res.status)
    IN  <<SendLendingOrderMessage("LENDING_ORDER_ADDED", o.userAddress, o),
          Create(n, createErr),
          SendNotificationMessage(res.status, o.userAddress, Created(n, createErr))>>

\* handleLendingTopup and handleLendingRepay, which differ in the message type only
handleLendingTopupRepay(res, msgType, createErr, tradeErr) ==
    LET o == res.lendingOrder
        n == Notification(o, res.status)
    IN  <<Create(n, createErr),
          SendNotificationMessage(msgType, o.userAddress, Created(n, createErr)),
          GetByHash(o.hash, tradeErr),
          SendLendingOrderMessage(msgType, o.userAddress, LendingTrade(o.hash, tradeErr))>>

handleLendingRecallNoTrade(res, createErr, tradeErr) ==
    LET o == res.lendingOrder
        n == Notification(o, res.status)
    IN  <<SendLendingOrderMessage("LENDING_ORDER_RECALLED", o.userAddress, o),
          Create(n, createErr),
          SendNotificationMessage("LENDING_ORDER_RECALLED", o.userAddress,
                                  Created(n, createErr))>>

\* handleLendingRecall
handleLendingRecall(res, createErr, tradeErr) ==
    LET o == res.lendingOrder
        n == Notification(o, res.status)
    IN  <<SendLendingOrderMessage("LENDING_ORDER_RECALLED", o.userAddress, o),
          Create(n, createErr),
          SendNotificationMessage("LENDING_ORDER_RECALLED", o.userAddress,
                                  Created(n, createErr)),
          GetByHash(o.hash, tradeErr),
          SendLendingOrderMessage("LENDING_ORDER_RECALLED", o.userAddress,
                                  LendingTrade(o.hash, tradeErr))>>

\* handleLendingReject
handleLendingReject(res, lendingType, createErr) ==
    LET o == res.lendingOrder
        n == Notification(o, res.status)
    IN  <<SendLendingOrderMessage(lendingType, o.userAddress, o),
          Create(n, createErr),
          SendNotificationMessage(lendingType, o.userAddress, Created(n, createErr))>>

handleLendingOrderCancelledStops(res, createErr) ==
    LET o == res.lendingOrder
        n == Notification(o, "LENDING_ORDER_CANCELLED")
    IN  IF createErr # NoErr THEN <<Create(n, createErr)>>
        ELSE <<Create(n, createErr),
               SendLendingOrderMessage("LENDING_ORDER_CANCELLED", o.userAddress, o),
               SendNotificationMessage("LENDING_ORDER_CANCELLED", o.userAddress,
                                       Created(n, createErr))>>

\* handleLendingOrderCancelled
handleLendingOrderCancelled(res, createErr) ==
    LET o == res.lendingOrder
        n == Notification(o, "LENDING_ORDER_CANCELLED")
    IN  <<Create(n, createErr),
          SendLendingOrderMessage("LENDING_ORDER_CANCELLED", o.userAddress, o),
          SendNotificationMessage("LENDING_ORDER_CANCELLED", o.userAddress,
                                  Created(n, createErr))>>

\* handleEngineError
handleEngineError(res, createErr) ==
    LET o == res.lendingOrder
        n == Notification(o, "LENDING_ORDER_REJECTED")
    IN  <<Create(n, createErr),
          SendLendingOrderMessage("LENDING_ORDER_REJECTED", o.userAddress, o),
          SendNotificationMessage("LENDING_ORDER_REJECTED", o.userAddress,
                                  Created(n, createErr))>>

DispatchFilledNotifies(res, createErr, tradeErr) ==
    IF res.status \in {"LENDING_ORDER_PARTIALLY_FILLED", "LENDING_ORDER_FILLED"}
    THEN handleLendingOrderAdded(res, createErr)
    ELSE <<>>

\* the switch of HandleLendingOrderResponse: the calls the chosen handler makes
\* (handleLendingOrderRejected, handleLendingOrderPartialFilled,
\* handleLendingOrderFilled and handleEngineUnknownMessage are empty)
Dispatch(res, createErr, tradeErr) ==
    CASE res.status = "LENDING_ORDER_ADDED" -> handleLendingOrderAdded(res, createErr)
      [] res.status = "LENDING_ORDER_CANCELLED" -> handleLendingOrderCancelled(res, createErr)
      [] res.status = "LENDING_ORDER_REJECTED" -> <<>>
      [] res.status = "LENDING_ORDER_PARTIALLY_FILLED" -> <<>>
      [] res.status = "LENDING_ORDER_FILLED" -> <<>>
      [] res.status = "LENDING_ORDER_REPAYED" ->
            handleLendingTopupRepay(res, "LENDING_ORDER_REPAYED", createErr, tradeErr)
      [] res.status = "LENDING_ORDER_TOPUPED" ->
            handleLendingTopupRepay(res, "LENDING_ORDER_TOPUPED", createErr, tradeErr)
      [] res.status = "LENDING_ORDER_RECALLED" -> handleLendingRecall(res, createErr, tradeErr)
      [] res.status = "LENDING_ORDER_TOPUP_REJECTED" ->
            handleLendingReject(res, "LENDING_ORDER_TOPUP_REJECTED", createErr)
      [] res.status = "LENDING_ORDER_REPAY_REJECTED" ->
            handleLendingReject(res, "LENDING_ORDER_REPAY_REJECTED", createErr)
      [] res.status = "LENDING_ORDER_RECALL_REJECTED" ->
            handleLendingReject(res, "LENDING_ORDER_RECALL_REJECTED", createErr)
      [] res.status = "ERROR_STATUS" -> handleEngineError(res, createErr)
      [] OTHER -> <<>>

---------------------------------------------------------------------------
(* Bulk aggregator                                                         *)

saveBulkLendingOrdersKeepFirst(buf, o) ==
    LET id == GetLendingOrderBookChannelID(o.term, o.lendingToken)
    IN  IF MapHas(buf, id)
        THEN IF MapHas(buf[id], o.hash) THEN buf ELSE MapPut(buf, id, MapPut(buf[id], o.hash, o))
        ELSE MapPut(buf, id, MapPut(EmptyMap, o.hash, o))

\* the bulk buffer after saveBulkLendingOrders(res), o being res.LendingOrder
saveBulkLendingOrders(buf, o) ==
    LET id == GetLendingOrderBookChannelID(o.term, o.lendingToken)
    IN  IF MapHas(buf, id)
        THEN MapPut(buf, id, MapPut(buf[id], o.hash, o))
        ELSE MapPut(buf, id, MapPut(EmptyMap, o.hash, o))

SavesResponseAlways(res) == TRUE

\* whether HandleLendingOrderResponse forwards the response to the bulk buffer
SavesResponse(res) == res.status # "ERROR_STATUS"

\* one dispatched engine response; createErr and tradeErr are what storage answers
HandleLendingOrderResponse(res, createErr, tradeErr) ==
    /\ svcOp' = SvcCall("HandleLendingOrderResponse", res.status, res.lendingOrder, "",
                        NoErr, Dispatch(res, createErr, tradeErr), <<>>)
    /\ IF SavesResponse(res)
       THEN /\ Len(accepted) < MaxWindow
            /\ bulkLendingOrders' = saveBulkLendingOrders(bulkLendingOrders, res.lendingOrder)
            /\ accepted' = Append(accepted, res.lendingOrder)
       ELSE UNCHANGED <<bulkLendingOrders, accepted>>
    /\ UNCHANGED <<regVars, inVars, lockVars, taskVars, rlVars>>

\* a nil or a set *big.Int
NilAmount == [isNil |-> TRUE, val |-> 0]

BigInt(n) == [isNil |-> FALSE, val |-> n]

\* what s.lendingDao.GetLendingOrderBookInterest may answer
LookupResults ==
    {[amount |-> NilAmount, err |-> "lookup failed"],
     [amount |-> NilAmount, err |-> NoErr],
     [amount |-> BigInt(250), err |-> NoErr]}

\* s.lendingDao.GetLendingOrderBookInterest(o.Term, o.LendingToken, o.Interest, side)
GetLendingOrderBookInterest(o, r) ==
    [call |-> "GetLendingOrderBookInterest", term |-> o.term,
     lendingToken |-> o.lendingToken, interest |-> o.interest, side |-> o.side,
     amount |-> r.amount, err |-> r.err, order |-> o]

UpdateIgnoresLookup(o, r) == [interest |-> FormatUint(o.interest), amount |-> <<"0">>]

\* the update map built for one order from the looked up amount
Update(o, r) ==
    [interest |-> FormatUint(o.interest),
     amount |-> BigIntString(IF r.amount.isNil THEN 0 ELSE r.amount.val)]

IsBorrowInverted(o) == o.side # "BORROW"

\* side == types.BORROW
IsBorrow(o) == o.side = "BORROW"

RECURSIVE Updates(_, _, _, _)
\* the borrow list (wantBorrow) or the lend list built over the orders in range order
Updates(orders, hs, look, wantBorrow) ==
    IF hs = <<>> THEN <<>>
    ELSE LET o == orders[Head(hs)]
             rest == Updates(orders, Tail(hs), look, wantBorrow)
         IN  IF IsBorrow(o) = wantBorrow
             THEN <<Update(o, look[Head(hs)])>> \o rest
             ELSE rest

\* ws.GetLendingOrderBookSocket().BroadcastMessage(p, &types.LendingOrderBook{...})
BroadcastOrderBook(p, borrow, lend) ==
    [call |-> "BroadcastMessage", channelID |-> p,
     payload |-> [name |-> p, borrow |-> borrow, lend |-> lend]]

\* the body of the flush loop for channel p, its orders visited in the order hs
ChannelFlush(p, orders, hs, look) ==
    IF Len(hs) <= 0 THEN <<>>
    ELSE [i \in DOMAIN hs |-> GetLendingOrderBookInterest(orders[hs[i]], look[hs[i]])]
         \o <<BroadcastOrderBook(p, Updates(orders, hs, look, TRUE),
                                 Updates(orders, hs, look, FALSE))>>

RECURSIVE FlushEffects(_, _, _, _)
\* the calls of processBulkLendingOrders, the channels visited in the order ps
FlushEffects(buf, ps, inner, look) ==
    IF ps = <<>> THEN <<>>
    ELSE ChannelFlush(Head(ps), buf[Head(ps)], inner[Head(ps)], look)
         \o FlushEffects(buf, Tail(ps), inner, look)

\* the orders in which the inner range loops may visit the hashes of each channel
InnerOrders(buf) ==
    {f \in [DOMAIN buf -> UNION {RangeOrders(DOMAIN buf[p]) : p \in DOMAIN buf}] :
        \A p \in DOMAIN buf : f[p] \in RangeOrders(DOMAIN buf[p])}

\* the hashes of every order in the buffer
BufferedHashes(buf) == UNION {DOMAIN buf[p] : p \in DOMAIN buf}

BufferAfterFlushKept(buf) == buf

\* s.bulkLendingOrders = make(...) at the end of the flush
BufferAfterFlush(buf) == EmptyMap

\* one run of the periodic flush task
processBulkLendingOrders ==
    /\ \E ps \in RangeOrders(DOMAIN bulkLendingOrders),
          inner \in InnerOrders(bulkLendingOrders),
          look \in [BufferedHashes(bulkLendingOrders) -> LookupResults] :
          svcOp' = SvcCall("processBulkLendingOrders", "", NilOrder, "", NoErr,
                           FlushEffects(bulkLendingOrders, ps, inner, look), accepted)
    /\ bulkLendingOrders' = BufferAfterFlush(bulkLendingOrders)
    /\ accepted' = <<>>
    /\ UNCHANGED <<regVars, inVars, lockVars, taskVars, rlVars>>

---------------------------------------------------------------------------
(* Broker consumer                                                         *)

\* msg.Type of the messages the consumer is handed
MessageTypes == {"NEW_LENDING_ORDER", "CANCEL_LENDING_ORDER", "NEW_ORDER", ""}

\* msg.Data: the JSON text of an order, whole or cut off before its closing brace
Data(o, whole) == [fields |-> o, closed |-> whole]

\* json.Unmarshal(bytes, o): the order decoded, or an error and no order
Unmarshal(bytes) ==
    IF bytes.closed THEN [o |-> bytes.fields, err |-> NoErr]
    ELSE [o |-> NilOrder, err |-> "unexpected end of JSON input"]

\* s.lendingDao.AddNewLendingOrder(o) and the error it returned
AddNewLendingOrder(o, err) == [call |-> "AddNewLendingOrder", order |-> o, err |-> err]

\* s.lendingDao.CancelLendingOrder(o) and the error it returned
CancelLendingOrder(o, err) == [call |-> "CancelLendingOrder", order |-> o, err |-> err]

handleNewLendingOrderNoDecodeCheck(bytes, daoErr) ==
    LET d == Unmarshal(bytes)
    IN  IF d.err # NoErr
        THEN [calls |-> <<AddNewLendingOrder(d.o, daoErr)>>, ret |-> d.err]
        ELSE [calls |-> <<AddNewLendingOrder(d.o, daoErr)>>, ret |-> daoErr]

\* handleNewLendingOrder: the storage calls made and the error returned
handleNewLendingOrder(bytes, daoErr) ==
    LET d == Unmarshal(bytes)
    IN  IF d.err # NoErr THEN [calls |-> <<>>, ret |-> d.err]
        ELSE [calls |-> <<AddNewLendingOrder(d.o, daoErr)>>, ret |-> daoErr]

\* handleCancelLendingOrder: the storage calls made and the error returned
handleCancelLendingOrder(bytes, daoErr) ==
    LET d == Unmarshal(bytes)
    IN  IF d.err # NoErr THEN [calls |-> <<>>, ret |-> d.err]
        ELSE [calls |-> <<CancelLendingOrder(d.o, daoErr)>>, ret |-> daoErr]

\* the switch of HandleLendingOrdersCreateCancel
CreateCancel(msgType, bytes, daoErr) ==
    CASE msgType = "NEW_LENDING_ORDER" -> handleNewLendingOrder(bytes, daoErr)
      [] msgType = "CANCEL_LENDING_ORDER" -> handleCancelLendingOrder(bytes, daoErr)
      [] OTHER -> [calls |-> <<>>, ret |-> NoErr]

\* one broker message consumed; daoErr is what storage answers the write with
HandleLendingOrdersCreateCancel(msgType, bytes, daoErr) ==
    /\ msgOp' = [op |-> "HandleLendingOrdersCreateCancel", type |-> msgType,
                 data |-> bytes, calls |-> CreateCancel(msgType, bytes, daoErr).calls,
                 ret |-> CreateCancel(msgType, bytes, daoErr).ret]
    /\ UNCHANGED <<regVars, svcVars, lockVars, taskVars, rlVars>>

---------------------------------------------------------------------------
(* The bulk buffer's mutex, statement by statement                         *)

FlushLockNotTaken ==
    /\ flushTask.at = "sleep"
    /\ mutext' = mutext
    /\ \E ps \in RangeOrders(DOMAIN bulkLendingOrders) :
          flushTask' = [at |-> "range", todo |-> ps, orders |-> <<>>,
                        looked |-> <<>>, emitted |-> <<>>]
    /\ UNCHANGED <<taskVars, rlVars, regVars, svcVars, inVars, saveTask>>

\* s.mutext.Lock() of processBulkLendingOrders; the range over the buffer starts
FlushLock ==
    /\ flushTask.at = "sleep"
    /\ mutext = "unlocked"
    /\ mutext' = "flush"
    /\ \E ps \in RangeOrders(DOMAIN bulkLendingOrders) :
          flushTask' = [at |-> "range", todo |-> ps, orders |-> <<>>,
                        looked |-> <<>>, emitted |-> <<>>]
    /\ UNCHANGED <<taskVars, rlVars, regVars, svcVars, inVars, saveTask>>

\* for p, orders := range s.bulkLendingOrders: the next channel, or past an empty one
FlushNextChannel ==
    /\ flushTask.at = "range"
    /\ flushTask.todo # <<>>
    /\ \E hs \in RangeOrders(DOMAIN bulkLendingOrders[Head(flushTask.todo)]) :
          flushTask' = IF Len(hs) <= 0
                       THEN [flushTask EXCEPT !.todo = Tail(@)]
                       ELSE [flushTask EXCEPT !.at = "orders", !.orders = hs]
    /\ UNCHANGED <<taskVars, rlVars, regVars, svcVars, inVars, mutext, saveTask>>

\* s.lendingDao.GetLendingOrderBookInterest(...) is called: the storage query runs
FlushLookup ==
    /\ flushTask.at = "orders"
    /\ flushTask.orders # <<>>
    /\ flushTask' = [flushTask EXCEPT !.at = "lookup"]
    /\ UNCHANGED <<taskVars, rlVars, regVars, svcVars, inVars, mutext, saveTask>>

\* the storage query answered; the update is appended to borrow or lend
FlushLookupReturn ==
    /\ flushTask.at = "lookup"
    /\ flushTask' = [flushTask EXCEPT
          !.at = "orders", !.orders = Tail(@),
          !.looked = Append(@, bulkLendingOrders[Head(flushTask.todo)][Head(flushTask.orders)])]
    /\ UNCHANGED <<taskVars, rlVars, regVars, svcVars, inVars, mutext, saveTask>>

\* ws.GetLendingOrderBookSocket().BroadcastMessage(p, ...) is called: the sends run
FlushBroadcast ==
    /\ flushTask.at = "orders"
    /\ flushTask.orders = <<>>
    /\ flushTask' = [flushTask EXCEPT !.at = "broadcast", !.looked = <<>>,
                                      !.emitted = @ \o flushTask.looked]
    /\ UNCHANGED <<taskVars, rlVars, regVars, svcVars, inVars, mutext, saveTask>>

\* BroadcastMessage returned; the range goes on
FlushBroadcastReturn ==
    /\ flushTask.at = "broadcast"
    /\ flushTask' = [flushTask EXCEPT !.at = "range", !.todo = Tail(@)]
    /\ UNCHANGED <<taskVars, rlVars, regVars, svcVars, inVars, mutext, saveTask>>

\* the range is over: the buffer is replaced, the deferred Unlock runs
FlushUnlock ==
    /\ flushTask.at = "range"
    /\ flushTask.todo = <<>>
    /\ bulkLendingOrders' = BufferAfterFlush(bulkLendingOrders)
    /\ accepted' = <<>>
    /\ mutext' = "unlocked"
    /\ flushTask' = [at |-> "sleep", todo |-> <<>>, orders |-> <<>>,
                     looked |-> <<>>, emitted |-> <<>>]
    /\ UNCHANGED <<taskVars, rlVars, regVars, svcOp, inVars, saveTask>>

\* saveBulkLendingOrders(res) reaches s.mutext.Lock(): it takes the mutex or waits
SaveCall(o) ==
    /\ saveTask.at = "idle"
    /\ Len(accepted) < MaxWindow
    /\ IF mutext = "unlocked"
       THEN /\ mutext' = "save"
            /\ saveTask' = [at |-> "locked", order |-> o]
       ELSE /\ mutext' = mutext
            /\ saveTask' = [at |-> "blocked", order |-> o]
    /\ UNCHANGED <<taskVars, rlVars, regVars, svcVars, inVars, flushTask>>

\* the Lock() a producer waited in returns
SaveAcquire ==
    /\ saveTask.at = "blocked"
    /\ mutext = "unlocked"
    /\ mutext' = "save"
    /\ saveTask' = [saveTask EXCEPT !.at = "locked"]
    /\ UNCHANGED <<taskVars, rlVars, regVars, svcVars, inVars, flushTask>>

\* the order is stored and the deferred Unlock runs
SaveStore ==
    /\ saveTask.at = "locked"
    /\ bulkLendingOrders' = saveBulkLendingOrders(bulkLendingOrders, saveTask.order)
    /\ accepted' = Append(accepted, saveTask.order)
    /\ mutext' = "unlocked"
    /\ saveTask' = [at |-> "idle", order |-> NilOrder]
    /\ UNCHANGED <<taskVars, rlVars, regVars, svcOp, inVars, flushTask>>

---------------------------------------------------------------------------
(* Specification of the registry                                           *)

RegInit ==
    /\ subscriptions = EmptyMap
    /\ subscriptionsList = EmptyMap
    /\ regOp = RegCall("New", "", "", "", NoErr, <<>>, 0)
    /\ subCount = [k \in ChannelIDs \X (Clients \cup {NilClient}) |-> 0]
    /\ unsubscribed = {}

\* NewLendingOrderService: an empty bulk buffer
SvcInit ==
    /\ bulkLendingOrders = EmptyMap
    /\ accepted = <<>>
    /\ svcOp = SvcCall("New", "", NilOrder, "", NoErr, <<>>, <<>>)

\* no broker message consumed yet
InInit == msgOp = [op |-> "New"]

\* the zero sync.RWMutex, and no goroutine inside either critical section
LockInit ==
    /\ mutext = "unlocked"
    /\ flushTask = [at |-> "sleep", todo |-> <<>>, orders |-> <<>>,
                    looked |-> <<>>, emitted |-> <<>>]
    /\ saveTask = [at |-> "idle", order |-> NilOrder]

\* the goroutines that call the registry concurrently: one per client connection
Threads == {"t1", "t2"}

\* the client whose connection a goroutine serves
ClientOf(t) == IF t = "t1" THEN "c1" ELSE "c2"

\* a goroutine outside every call of the registry
IdleTask == [op |-> "idle", at |-> "idle", channelID |-> "", c |-> "", todo |-> <<>>]

\* WatchChanges has been called: every watcher is about to open its change stream
TaskInit ==
    /\ watcher = [d \in DocTypes |-> "opening"]
    /\ process = "running"
    /\ shutdown = FALSE

\* the zero mutexes of NewLendingMarketsSocket, and no goroutine inside the registry
RlInit ==
    /\ subsMutex = [writer |-> "none", readers |-> {}]
    /\ subsListMutex = [writer |-> "none", readers |-> {}]
    /\ regTask = [t \in Threads |-> IdleTask]

Init == RegInit /\ SvcInit /\ InInit /\ LockInit /\ TaskInit /\ RlInit

RegNext ==
    \/ \E channelID \in ChannelIDs, c \in Clients \cup {NilClient} : Subscribe(channelID, c)
    \/ \E channelID \in ChannelIDs, c \in Clients \cup {NilClient} :
          UnsubscribeChannel(channelID, c)
    \/ \E c \in Clients \cup {NilClient} : Unsubscribe(c)
    \/ \E channelID \in ChannelIDs, p \in Payloads : BroadcastMessage(channelID, p)

SpecRegistry == Init /\ [][RegNext]_vars

\* errors the broker may answer a publish with
PublishErrors == {NoErr, "publish failed"}

WatcherNext ==
    \E doc \in AllDocuments, docType \in DocTypes, pubErr \in PublishErrors :
        HandleDocumentType(doc, docType, pubErr)

SpecWatcher == Init /\ [][WatcherNext]_vars

\* errors storage may answer a write or a read with
StorageErrors == {NoErr, "storage failed"}

\* the orders clients submit or cancel: every hash, in the statuses a client may send
InboundOrders ==
    {LendingOrder(h, st) : h \in Hashes, st \in {"", "NEW", "OPEN", "CANCELLED"}}

InboundNext ==
    \E msgType \in MessageTypes, o \in InboundOrders, whole \in BOOLEAN,
       daoErr \in StorageErrors :
        HandleLendingOrdersCreateCancel(msgType, Data(o, whole), daoErr)

SpecInbound == Init /\ [][InboundNext]_vars

\* the orders the pipeline is driven with: every hash, open or cancelled
PipelineOrders == {LendingOrder(h, st) : h \in Hashes, st \in {"OPEN", "CANCELLED"}}

\* the documents the pipeline's watchers see: those orders, documents of a status
\* outside the table, and an event without a document
PipelineDocuments ==
    PipelineOrders \cup {LendingOrder(h, st) : h \in Hashes, st \in UnmappedStatuses}
        \cup {NilOrder}

\* the flush goroutine and one dispatcher goroutine, interleaved at their statements
LockNext ==
    \/ FlushLock
    \/ FlushNextChannel
    \/ FlushLookup
    \/ FlushLookupReturn
    \/ FlushBroadcast
    \/ FlushBroadcastReturn
    \/ FlushUnlock
    \/ \E o \in PipelineOrders : SaveCall(o)
    \/ SaveAcquire
    \/ SaveStore

SpecLock == Init /\ [][LockNext]_vars

Next ==
    \/ \E doc \in PipelineDocuments, docType \in DocTypes, pubErr \in PublishErrors :
          HandleDocumentType(doc, docType, pubErr)
    \/ \E status \in DispatchedStatuses \cup UnknownStatuses, o \in PipelineOrders,
          createErr \in StorageErrors, tradeErr \in StorageErrors :
          HandleLendingOrderResponse(EngineResponse(status, o), createErr, tradeErr)
    \/ processBulkLendingOrders

Spec == Init /\ [][Next]_vars

\* the pipeline with at most MaxLiveWindow orders taken between two flushes
LiveNext ==
    \/ \E doc \in PipelineDocuments, docType \in DocTypes, pubErr \in PublishErrors :
          HandleDocumentType(doc, docType, pubErr)
    \/ \E status \in DispatchedStatuses \cup UnknownStatuses, o \in PipelineOrders,
          createErr \in StorageErrors, tradeErr \in StorageErrors :
          /\ Len(accepted) < MaxLiveWindow \/ status = "ERROR_STATUS"
          /\ HandleLendingOrderResponse(EngineResponse(status, o), createErr, tradeErr)
    \/ processBulkLendingOrders

\* the flush task is a goroutine of its own that runs every 500 ms, whatever the
\* watchers and the dispatcher do
SpecLive == Init /\ [][LiveNext]_vars /\ WF_vars(processBulkLendingOrders)

---------------------------------------------------------------------------
(* The tasks WatchChanges starts                                           *)

\* what dao.Watch() answers: the change stream opened, or an error; the code reads
\* the session beside the error, and the DAO interface does not say whether a
\* session comes with an error, so both are possible
WatchResults ==
    {[err |-> NoErr, sc |-> "session"],
     [err |-> "watch failed", sc |-> "session"],
     [err |-> "watch failed", sc |-> "nil"]}

\* context.Background() is never cancelled: its Done channel never delivers
CtxDone == FALSE

\* the change events the watchers of this specification are fed
TaskDocuments == {LendingOrder("h1", "OPEN"), LendingOrder("h1", "NEW"), NilOrder}

\* watchChanges up to its loop: on an error sc.Close() is called on whatever came
\* beside it, and a nil session makes that call panic in a goroutine without
\* recover, which ends the process and every goroutine in it; a live session is
\* closed and the call returns
WatchOpen(docType, r) ==
    /\ process = "running"
    /\ watcher[docType] = "opening"
    /\ IF r.err # NoErr
       THEN IF r.sc = "nil"
            THEN /\ process' = "panicked"
                 /\ watcher' = [d \in DocTypes |-> "killed"]
            ELSE /\ watcher' = [watcher EXCEPT ![docType] = "returned"]
                 /\ UNCHANGED process
       ELSE /\ watcher' = [watcher EXCEPT ![docType] = "running"]
            /\ UNCHANGED process
    /\ UNCHANGED <<shutdown, regVars, svcVars, inVars, lockVars, rlVars>>

\* one turn of the loop of watchChanges in which ct.Next delivered an event: the
\* select takes the default branch unless ctx.Done() delivers
watchChangesNext(docType, doc, pubErr) ==
    /\ process = "running"
    /\ watcher[docType] = "running"
    /\ IF CtxDone
       THEN /\ watcher' = [watcher EXCEPT ![docType] = "returned"]
            /\ UNCHANGED <<process, shutdown, regVars, svcVars, inVars, lockVars, rlVars>>
       ELSE HandleDocumentType(doc, docType, pubErr)

\* the flush goroutine of WatchChanges: one wake-up after 500 ms
FlushTick ==
    /\ process = "running"
    /\ processBulkLendingOrders

\* the environment raises the shutdown signal; no statement of the service reads it
ShutdownSignal ==
    /\ process = "running"
    /\ ~shutdown
    /\ shutdown' = TRUE
    /\ UNCHANGED <<watcher, process, regVars, svcVars, inVars, lockVars, rlVars>>

TaskNext ==
    \/ \E docType \in DocTypes, r \in WatchResults : WatchOpen(docType, r)
    \/ \E docType \in DocTypes, doc \in TaskDocuments, pubErr \in PublishErrors :
          watchChangesNext(docType, doc, pubErr)
    \/ FlushTick
    \/ ShutdownSignal

SpecTasks == Init /\ [][TaskNext]_vars

\* every started goroutine is scheduled again and again: a watcher that can open
\* its stream or take an event does so, and the flush wakes up
SpecTasksLive ==
    /\ Init
    /\ [][TaskNext]_vars
    /\ \A docType \in DocTypes :
          /\ WF_vars(\E r \in WatchResults : WatchOpen(docType, r))
          /\ WF_vars(\E doc \in TaskDocuments, pubErr \in PublishErrors :
                        watchChangesNext(docType, doc, pubErr))
    /\ WF_vars(FlushTick)


---------------------------------------------------------------------------
(* The registry's two mutexes, statement by statement                      *)

\* a sync.RWMutex nobody holds: Lock() returns at once
Free(m) == m.writer = "none" /\ m.readers = {}

\* a sync.RWMutex no writer holds: RLock() returns at once
NoWriter(m) == m.writer = "none"

Locked(m, t) == [m EXCEPT !.writer = t]

Unlocked(m) == [m EXCEPT !.writer = "none"]

RLocked(m, t) == [m EXCEPT !.readers = @ \cup {t}]

RUnlocked(m, t) == [m EXCEPT !.readers = @ \ {t}]

\* Subscribe is called with a client that is not nil, and stands before
\* s.subsMutex.Lock()
SubscribeCall(t, channelID) ==
    /\ regTask[t] = IdleTask
    /\ IF MapHas(subscriptionsList, ClientOf(t))
       THEN Len(subscriptionsList[ClientOf(t)]) < MaxLockSubs
       ELSE TRUE
    /\ regTask' = [regTask EXCEPT ![t] = [op |-> "Subscribe", at |-> "lockSubs",
                                          channelID |-> channelID, c |-> ClientOf(t),
                                          todo |-> <<>>]]
    /\ UNCHANGED <<regVars, subsMutex, subsListMutex, svcVars, inVars, lockVars, taskVars>>

\* s.subsMutex.Lock() of Subscribe returns
SubscribeLockSubs(t) ==
    /\ regTask[t].op = "Subscribe"
    /\ regTask[t].at = "lockSubs"
    /\ Free(subsMutex)
    /\ subsMutex' = Locked(subsMutex, t)
    /\ regTask' = [regTask EXCEPT ![t].at = "lockList"]
    /\ UNCHANGED <<regVars, subsListMutex, svcVars, inVars, lockVars, taskVars>>

\* s.subsListMutex.Lock() of Subscribe returns
SubscribeLockList(t) ==
    /\ regTask[t].op = "Subscribe"
    /\ regTask[t].at = "lockList"
    /\ Free(subsListMutex)
    /\ subsListMutex' = Locked(subsListMutex, t)
    /\ regTask' = [regTask EXCEPT ![t].at = "body"]
    /\ UNCHANGED <<regVars, subsMutex, svcVars, inVars, lockVars, taskVars>>

\* the writes of Subscribe to both indices, and its two deferred unlocks
SubscribeBody(t) ==
    /\ regTask[t].op = "Subscribe"
    /\ regTask[t].at = "body"
    /\ subscriptions' = SubscribeSubs(subscriptions, regTask[t].channelID, regTask[t].c)
    /\ subscriptionsList' = SubscribeList(subscriptionsList, regTask[t].channelID, regTask[t].c)
    /\ subsMutex' = Unlocked(subsMutex)
    /\ subsListMutex' = Unlocked(subsListMutex)
    /\ regTask' = [regTask EXCEPT ![t] = IdleTask]
    /\ UNCHANGED <<regOp, subCount, unsubscribed, svcVars, inVars, lockVars, taskVars>>

\* UnsubscribeChannel is called from outside, and stands before s.subsMutex.Lock()
UnsubscribeChannelCall(t, channelID) ==
    /\ regTask[t] = IdleTask
    /\ regTask' = [regTask EXCEPT ![t] = [op |-> "UnsubscribeChannel", at |-> "lockSubs",
                                          channelID |-> channelID, c |-> ClientOf(t),
                                          todo |-> <<>>]]
    /\ UNCHANGED <<regVars, subsMutex, subsListMutex, svcVars, inVars, lockVars, taskVars>>

\* s.subsMutex.Lock() of UnsubscribeChannel returns, whoever called it
UnsubscribeChannelLock(t) ==
    /\ regTask[t].op \in {"UnsubscribeChannel", "Unsubscribe"}
    /\ regTask[t].at = "lockSubs"
    /\ Free(subsMutex)
    /\ subsMutex' = Locked(subsMutex, t)
    /\ regTask' = [regTask EXCEPT ![t].at = "body"]
    /\ UNCHANGED <<regVars, subsListMutex, svcVars, inVars, lockVars, taskVars>>

\* the test and the delete of UnsubscribeChannel, and its deferred unlock; the call
\* returns to its caller, which is the loop of Unsubscribe or the outside
UnsubscribeChannelBody(t) ==
    /\ regTask[t].op \in {"UnsubscribeChannel", "Unsubscribe"}
    /\ regTask[t].at = "body"
    /\ subscriptions' = UnsubscribeChannelSubs(subscriptions, regTask[t].channelID,
                                               regTask[t].c)
    /\ subsMutex' = Unlocked(subsMutex)
    /\ regTask' = [regTask EXCEPT ![t] = IF regTask[t].op = "Unsubscribe"
                                         THEN [@ EXCEPT !.at = "loop", !.channelID = ""]
                                         ELSE IdleTask]
    /\ UNCHANGED <<subscriptionsList, regOp, subCount, unsubscribed, subsListMutex,
                   svcVars, inVars, lockVars, taskVars>>

\* Unsubscribe is called, and stands before s.subsListMutex.RLock()
UnsubscribeCall(t) ==
    /\ regTask[t] = IdleTask
    /\ regTask' = [regTask EXCEPT ![t] = [op |-> "Unsubscribe", at |-> "rlockList",
                                          channelID |-> "", c |-> ClientOf(t),
                                          todo |-> <<>>]]
    /\ UNCHANGED <<regVars, subsMutex, subsListMutex, svcVars, inVars, lockVars, taskVars>>

\* s.subsListMutex.RLock() of Unsubscribe returns and the client's list is read: a
\* nil list makes the call return, with its deferred RUnlock; any other list is
\* what the loop ranges over
UnsubscribeRLock(t) ==
    /\ regTask[t].op = "Unsubscribe"
    /\ regTask[t].at = "rlockList"
    /\ NoWriter(subsListMutex)
    /\ IF MapHas(subscriptionsList, regTask[t].c)
       THEN /\ subsListMutex' = RLocked(subsListMutex, t)
            /\ regTask' = [regTask EXCEPT ![t].at = "loop",
                                          ![t].todo = subscriptionsList[regTask[t].c]]
       ELSE /\ regTask' = [regTask EXCEPT ![t] = IdleTask]
            /\ UNCHANGED subsListMutex
    /\ UNCHANGED <<regVars, subsMutex, svcVars, inVars, lockVars, taskVars>>

\* one turn of the loop of Unsubscribe: the next channel is handed to
\* UnsubscribeChannel, or the loop is over and the deferred RUnlock runs
UnsubscribeRange(t) ==
    /\ regTask[t].op = "Unsubscribe"
    /\ regTask[t].at = "loop"
    /\ IF regTask[t].todo = <<>>
       THEN /\ subsListMutex' = RUnlocked(subsListMutex, t)
            /\ regTask' = [regTask EXCEPT ![t] = IdleTask]
       ELSE /\ regTask' = [regTask EXCEPT ![t].at = "lockSubs",
                                          ![t].channelID = Head(regTask[t].todo),
                                          ![t].todo = Tail(regTask[t].todo)]
            /\ UNCHANGED subsListMutex
    /\ UNCHANGED <<regVars, subsMutex, svcVars, inVars, lockVars, taskVars>>

\* BroadcastMessage is called, and stands before s.subsMutex.RLock() of
\* getSubscriptions
BroadcastCall(t, channelID) ==
    /\ regTask[t] = IdleTask
    /\ regTask' = [regTask EXCEPT ![t] = [op |-> "BroadcastMessage", at |-> "rlockSubs",
                                          channelID |-> channelID, c |-> "",
                                          todo |-> <<>>]]
    /\ UNCHANGED <<regVars, subsMutex, subsListMutex, svcVars, inVars, lockVars, taskVars>>

\* getSubscriptions: RLock, return s.subscriptions, deferred RUnlock; what comes
\* back is the map itself, not a copy, and the lock is free again on return
getSubscriptions(t) ==
    /\ regTask[t].op = "BroadcastMessage"
    /\ regTask[t].at = "rlockSubs"
    /\ NoWriter(subsMutex)
    /\ regTask' = [regTask EXCEPT ![t].at = "range"]
    /\ UNCHANGED <<regVars, subsMutex, subsListMutex, svcVars, inVars, lockVars, taskVars>>

\* the range of BroadcastMessage over subs[channelID], read from the shared map
\* with no lock held, comes to its end and the call returns
BroadcastRange(t) ==
    /\ regTask[t].op = "BroadcastMessage"
    /\ regTask[t].at = "range"
    /\ regTask' = [regTask EXCEPT ![t] = IdleTask]
    /\ UNCHANGED <<regVars, subsMutex, subsListMutex, svcVars, inVars, lockVars, taskVars>>

\* two goroutines calling the registry, interleaved at their lock operations
RegLockNext ==
    \/ \E t \in Threads, channelID \in ChannelIDs : SubscribeCall(t, channelID)
    \/ \E t \in Threads : SubscribeLockSubs(t)
    \/ \E t \in Threads : SubscribeLockList(t)
    \/ \E t \in Threads : SubscribeBody(t)
    \/ \E t \in Threads, channelID \in ChannelIDs : UnsubscribeChannelCall(t, channelID)
    \/ \E t \in Threads : UnsubscribeChannelLock(t)
    \/ \E t \in Threads : UnsubscribeChannelBody(t)
    \/ \E t \in Threads : UnsubscribeCall(t)
    \/ \E t \in Threads : UnsubscribeRLock(t)
    \/ \E t \in Threads : UnsubscribeRange(t)
    \/ \E t \in Threads, channelID \in ChannelIDs : BroadcastCall(t, channelID)
    \/ \E t \in Threads : getSubscriptions(t)
    \/ \E t \in Threads : BroadcastRange(t)

SpecRegLock == Init /\ [][RegLockNext]_vars

---------------------------------------------------------------------------
(* Properties of the registry                                              *)

\* how many of the sends of the last call went to client c
SentTo(c) == Cardinality({i \in DOMAIN regOp.sent : regOp.sent[i].to = c})

\* the channels client c has ever been appended to in the inverse index
JoinedChannels(c) ==
    IF MapHas(subscriptionsList, c)
    THEN {subscriptionsList[c][i] : i \in DOMAIN subscriptionsList[c]}
    ELSE {}

\* C1: once Unsubscribe(c) has returned, and until c is subscribed again, no
\* BroadcastMessage on any channel delivers a message to c.
C1_NoBroadcastAfterUnsubscribe ==
    regOp.op = "BroadcastMessage" =>
        \A i \in DOMAIN regOp.sent : regOp.sent[i].to \notin unsubscribed

\* a broadcast that reaches somebody on a channel an unsubscribed client had joined
C1_Witness ==
    /\ regOp.op = "BroadcastMessage"
    /\ Len(regOp.sent) > 0
    /\ \E c \in unsubscribed : regOp.channelID \in JoinedChannels(c)

\* C2: a pair subscribed once or several times holds exactly one active entry, a
\* broadcast on the channel delivers exactly one message to the client, and one
\* UnsubscribeChannel(channelID, c) or Unsubscribe(c) leaves no entry for it.
C2_SubscribeIdempotent ==
    /\ \A ch \in ChannelIDs, c \in Clients :
          subCount[<<ch, c>>] >= 1 =>
              /\ IsSubscribed(subscriptions, ch, c)
              /\ c \in BroadcastTargets(subscriptions, ch)
    /\ regOp.op = "BroadcastMessage" =>
          \A c \in Clients : subCount[<<regOp.channelID, c>>] >= 1 => SentTo(c) = 1
    /\ regOp.op = "UnsubscribeChannel" =>
          /\ ~IsSubscribed(subscriptions, regOp.channelID, regOp.c)
          /\ regOp.c \notin BroadcastTargets(subscriptions, regOp.channelID)
    /\ regOp.op = "Unsubscribe" =>
          \A ch \in ChannelIDs :
              /\ ~IsSubscribed(subscriptions, ch, regOp.c)
              /\ regOp.c \notin BroadcastTargets(subscriptions, ch)

\* a single unsubscribe has just removed a pair that had been subscribed twice
C2_Witness ==
    /\ regOp.op \in {"UnsubscribeChannel", "Unsubscribe"}
    /\ regOp.dup >= 2
    /\ \A ch \in ChannelIDs : regOp.op = "Unsubscribe" => ~IsSubscribed(subscriptions, ch, regOp.c)

\* C3: BroadcastMessage(channelID, p) sends p exactly once to every client with an
\* active subscription on channelID, sends nothing to any other client, and
\* returns no error.
C3_BroadcastExactlySubscribers ==
    regOp.op = "BroadcastMessage" =>
        /\ regOp.err = NoErr
        /\ \A c \in Clients \cup {NilClient} :
              SentTo(c) = IF subCount[<<regOp.channelID, c>>] >= 1 THEN 1 ELSE 0
        /\ \A i \in DOMAIN regOp.sent : regOp.sent[i] = UpdateMessage(regOp.sent[i].to, regOp.p)

\* a broadcast that reaches one client while another is subscribed only elsewhere
\* and a third pair has already been unsubscribed
C3_Witness ==
    /\ regOp.op = "BroadcastMessage"
    /\ Len(regOp.sent) = 1
    /\ \E c \in Clients, ch \in ChannelIDs :
          /\ ch # regOp.channelID
          /\ subCount[<<ch, c>>] >= 1
          /\ subCount[<<regOp.channelID, c>>] = 0
          /\ regOp.channelID \in JoinedChannels(c)

\* C4 (as claimed): a client is present in the inverse index iff it holds at least
\* one active entry in the forward index.
C4_InverseIffForward ==
    \A c \in Clients :
        MapHas(subscriptionsList, c) <=> \E ch \in ChannelIDs : IsSubscribed(subscriptions, ch, c)

\* C5: Subscribe(channelID, nil) fails with "No connection found" and leaves the
\* forward and the inverse index unchanged.
C5_SubscribeNilFails ==
    [][(regOp'.op = "Subscribe" /\ regOp'.c = NilClient) =>
          /\ regOp'.err = "No connection found"
          /\ UNCHANGED <<subscriptions, subscriptionsList>>]_vars

\* Subscribe(channelID, nil) has failed on a registry that holds subscriptions
C5_Witness ==
    /\ regOp.op = "Subscribe"
    /\ regOp.c = NilClient
    /\ regOp.err = "No connection found"
    /\ subscriptions # EmptyMap
    /\ subscriptionsList # EmptyMap

\* the (channel, client) pairs the forward index can hold
Pairs == ChannelIDs \X (Clients \cup {NilClient})

\* C26: UnsubscribeChannel(channelID, c) changes nothing when c is not subscribed to
\* channelID, a channel never used included, and in every case leaves the
\* subscription of every other (channel, client) pair, and the inverse index, as
\* they were.
C26_UnsubscribeChannelFrame ==
    [][regOp'.op = "UnsubscribeChannel" =>
          /\ ~IsSubscribed(subscriptions, regOp'.channelID, regOp'.c) =>
                 UNCHANGED <<subscriptions, subscriptionsList>>
          /\ \A k \in Pairs \ {<<regOp'.channelID, regOp'.c>>} :
                 IsSubscribed(subscriptions', k[1], k[2])
                     = IsSubscribed(subscriptions, k[1], k[2])
          /\ ~IsSubscribed(subscriptions', regOp'.channelID, regOp'.c)]_vars

\* UnsubscribeChannel has been called for a client that was not subscribed to the
\* channel, while another client is subscribed to it
C26_Witness ==
    /\ regOp.op = "UnsubscribeChannel"
    /\ regOp.dup = 0
    /\ \E c \in Clients \ {regOp.c} : IsSubscribed(subscriptions, regOp.channelID, c)

---------------------------------------------------------------------------
(* Properties of the watcher                                               *)

\* the table of the claim
C8_Table(status, docType) ==
    CASE status = "OPEN" -> "LENDING_ORDER_ADDED"
      [] status = "CANCELLED" -> "LENDING_ORDER_CANCELLED"
      [] status = "FILLED" -> "LENDING_ORDER_FILLED"
      [] status = "PARTIAL_FILLED" -> "LENDING_ORDER_PARTIALLY_FILLED"
      [] status = "REPAY" -> "LENDING_ORDER_REPAYED"
      [] status = "TOPUP" -> "LENDING_ORDER_TOPUPED"
      [] status = "RECALL" -> "LENDING_ORDER_RECALLED"
      [] status = "REJECTED" /\ docType = "ORDER" -> "LENDING_ORDER_REJECTED"
      [] status = "REJECTED" /\ docType = "TOPUP" -> "LENDING_ORDER_TOPUP_REJECTED"
      [] status = "REJECTED" /\ docType = "REPAY" -> "LENDING_ORDER_REPAY_REJECTED"
      [] status = "REJECTED" /\ docType = "RECALL" -> "LENDING_ORDER_RECALL_REJECTED"

\* C8: for every status of the table and every document type, HandleDocumentType
\* publishes exactly one EngineResponse, whose status is the table's entry for
\* (status, document type) and whose order is the observed document, unchanged.
C8_StatusTable ==
    (/\ svcOp.op = "HandleDocumentType"
     /\ svcOp.order # NilOrder
     /\ svcOp.order.status \in MappedStatuses) =>
        /\ Len(svcOp.effects) = 1
        /\ svcOp.effects[1].call = "PublishLendingOrderResponse"
        /\ svcOp.effects[1].res =
              EngineResponse(C8_Table(svcOp.order.status, svcOp.docType), svcOp.order)

\* a rejected top-up document has been handled by the top-up watcher
C8_Witness ==
    /\ svcOp.op = "HandleDocumentType"
    /\ svcOp.order.status = "REJECTED"
    /\ svcOp.docType = "TOPUP"
    /\ Len(svcOp.effects) = 1
    /\ svcOp.effects[1].res.status = "LENDING_ORDER_TOPUP_REJECTED"

---------------------------------------------------------------------------
(* Properties of the dispatcher and the aggregator                         *)

FlushDone == svcOp.op = "processBulkLendingOrders"

\* the positions of the calls of one kind among the calls of the last operation
Calls(name) == {i \in DOMAIN svcOp.effects : svcOp.effects[i].call = name}

ChannelOf(o) == GetLendingOrderBookChannelID(o.term, o.lendingToken)

\* the hashes accepted in the window the last flush closed
WindowHashes == {svcOp.window[i].hash : i \in DOMAIN svcOp.window}

AcceptedAt(h) == {i \in DOMAIN svcOp.window : svcOp.window[i].hash = h}

\* the order of the most recently accepted response for hash h in that window
LastAccepted(h) == svcOp.window[Max(AcceptedAt(h))]

BroadcastsOn(p) == {i \in Calls("BroadcastMessage") : svcOp.effects[i].channelID = p}

LookupsFor(h) ==
    {i \in Calls("GetLendingOrderBookInterest") : svcOp.effects[i].order.hash = h}

\* the snapshot entry of order o given the answer of the volume lookup at position i
EntryFor(o, i) ==
    [interest |-> FormatUint(o.interest),
     amount |-> IF svcOp.effects[i].amount.isNil THEN <<"0">>
                ELSE BigIntString(svcOp.effects[i].amount.val)]

\* the list of snapshot b that an order of side `side` belongs to
ListOf(b, side) ==
    IF side = "BORROW" THEN svcOp.effects[b].payload.borrow
    ELSE svcOp.effects[b].payload.lend

HasEntry(list, e) == \E k \in DOMAIN list : list[k] = e

\* C6: given N >= 1 responses for one hash (same term and token) accepted between
\* two flushes, the next flush emits exactly one entry for the hash, computed from
\* the order of the most recently accepted response.
C6_OneEntryLatestValue ==
    FlushDone =>
        \A h \in WindowHashes :
            (\A i \in AcceptedAt(h) : ChannelOf(svcOp.window[i]) = ChannelOf(LastAccepted(h))) =>
                LET o == LastAccepted(h)
                    p == ChannelOf(o)
                IN  /\ Cardinality(LookupsFor(h)) = 1
                    /\ Cardinality(BroadcastsOn(p)) = 1
                    /\ \A i \in LookupsFor(h), b \in BroadcastsOn(p) :
                          /\ svcOp.effects[i].order = o
                          /\ HasEntry(ListOf(b, o.side), EntryFor(o, i))
                          /\ Len(svcOp.effects[b].payload.borrow)
                                + Len(svcOp.effects[b].payload.lend)
                             = Cardinality({g \in WindowHashes : ChannelOf(LastAccepted(g)) = p})

\* a flush after two responses for one hash that carried different order values
C6_Witness ==
    /\ FlushDone
    /\ \E h \in WindowHashes :
          /\ Cardinality(AcceptedAt(h)) >= 2
          /\ \E i \in AcceptedAt(h) : svcOp.window[i] # LastAccepted(h)
          /\ Cardinality(LookupsFor(h)) = 1

\* C7: a flush broadcasts on no channel that received no response since the
\* previous flush; a flush over an empty buffer broadcasts nothing.
C7_NoEmptyBroadcast ==
    FlushDone =>
        \A b \in Calls("BroadcastMessage") :
            \E i \in DOMAIN svcOp.window : ChannelOf(svcOp.window[i]) = svcOp.effects[b].channelID

\* a flush that broadcast on one channel while the other had received nothing
C7_Witness ==
    /\ FlushDone
    /\ Cardinality(Calls("BroadcastMessage")) = 1
    /\ \E h \in Hashes :
          \A i \in DOMAIN svcOp.window :
              ChannelOf(svcOp.window[i]) # ChannelOf(LendingOrder(h, "OPEN"))

UnknownDispatched ==
    /\ svcOp.op = "HandleLendingOrderResponse"
    /\ svcOp.status \in UnknownStatuses

\* what C9 says of the two handlers themselves: nothing is published, no
\* notification is created, no message is sent, and nil is returned
C9_HandlersSilent ==
    /\ (/\ svcOp'.op = "HandleDocumentType"
        /\ svcOp'.order.status \in UnmappedStatuses) =>
          /\ svcOp'.effects = <<>>
          /\ svcOp'.ret = NoErr
    /\ (/\ svcOp'.op = "HandleLendingOrderResponse"
        /\ svcOp'.status \in UnknownStatuses) =>
          /\ svcOp'.effects = <<>>
          /\ svcOp'.ret = NoErr

C10_WatcherEmitsAdded ==
    (/\ svcOp.op = "HandleDocumentType"
     /\ svcOp.order.status = "OPEN"
     /\ svcOp.order.side = "BORROW") =>
        /\ Len(svcOp.effects) = 1
        /\ svcOp.effects[1].call = "PublishLendingOrderResponse"
        /\ svcOp.effects[1].res = EngineResponse("LENDING_ORDER_ADDED", svcOp.order)

\* C10, the dispatcher: an ADDED response asks storage for one Notification for the
\* order's user, sends the order to that user in an ADDED message, and buffers it
C10_DispatcherNotifies ==
    (/\ svcOp.op = "HandleLendingOrderResponse"
     /\ svcOp.status = "LENDING_ORDER_ADDED") =>
        LET o == svcOp.order
        IN  /\ Cardinality(Calls("notificationDao.Create")) = 1
            /\ \A i \in Calls("notificationDao.Create") :
                  /\ svcOp.effects[i].notification.recipient = o.userAddress
                  /\ svcOp.effects[i].notification.message =
                        [messageType |-> "LENDING_ORDER_ADDED", description |-> <<"0x", o.hash>>]
            /\ \E i \in Calls("SendLendingOrderMessage") :
                  /\ svcOp.effects[i].msgType = "LENDING_ORDER_ADDED"
                  /\ svcOp.effects[i].addr = o.userAddress
                  /\ svcOp.effects[i].payload = o
            /\ svcOp.ret = NoErr
            /\ accepted # <<>>
            /\ accepted[Len(accepted)] = o

\* C10, the flush: the snapshot of channel T::K lists every BORROW order that is the
\* latest of its hash in the window, as {interest, looked up volume}
C10_FlushListsBorrow ==
    FlushDone =>
        \A h \in WindowHashes :
            LastAccepted(h).side = "BORROW" =>
                LET o == LastAccepted(h)
                IN  \E b \in BroadcastsOn(<<FormatUint(o.term), "::", o.lendingToken>>),
                       i \in LookupsFor(h) :
                        /\ svcOp.effects[i].term = o.term
                        /\ svcOp.effects[i].lendingToken = o.lendingToken
                        /\ svcOp.effects[i].interest = o.interest
                        /\ svcOp.effects[i].side = "BORROW"
                        /\ svcOp.effects[b].payload.name = svcOp.effects[b].channelID
                        /\ HasEntry(svcOp.effects[b].payload.borrow, EntryFor(o, i))

\* C10: an open BORROW order O is published as ADDED; the dispatched ADDED response
\* has a Notification written for O's user and an ADDED message sent to that user;
\* the next run of the flush task, which always comes, broadcasts on channel T::K a
\* snapshot whose borrow list holds {interest: I, amount: the volume looked up}.
C10_EndToEnd ==
    /\ [](C10_WatcherEmitsAdded /\ C10_DispatcherNotifies /\ C10_FlushListsBorrow)
    /\ (accepted # <<>>) ~> (FlushDone /\ accepted = <<>>)

\* a flush has broadcast the entry of an open BORROW order h1 on channel 7::K1
C10_Witness ==
    /\ FlushDone
    /\ \E i \in DOMAIN svcOp.window :
          /\ svcOp.window[i] = LendingOrder("h1", "OPEN")
          /\ LastAccepted("h1") = svcOp.window[i]
    /\ \E b \in BroadcastsOn(<<<<"7">>, "::", "K1">>) :
          HasEntry(svcOp.effects[b].payload.borrow,
                   [interest |-> <<"5">>, amount |-> <<"2", "5", "0">>])

---------------------------------------------------------------------------
(* Properties of the cancel flow                                           *)

\* the positions among the calls es of the volume lookups made for hash h
LookupsIn(es, h) ==
    {i \in {j \in DOMAIN es : es[j].call = "GetLendingOrderBookInterest"} :
        es[i].order.hash = h}

\* the number of entries of the snapshots among the calls es broadcast on channel p
EntriesOn(es, p) ==
    LET bs == {i \in {j \in DOMAIN es : es[j].call = "BroadcastMessage"} :
                  es[i].channelID = p}
        RECURSIVE Sum(_)
        Sum(S) == IF S = {} THEN 0
                  ELSE LET b == CHOOSE x \in S : TRUE
                       IN  Len(es[b].payload.borrow) + Len(es[b].payload.lend)
                              + Sum(S \ {b})
    IN  Sum(bs)

\* a CANCELLED response for a cancelled order has just been dispatched
CancelDispatched ==
    /\ svcOp.op = "HandleLendingOrderResponse"
    /\ svcOp.status = "LENDING_ORDER_CANCELLED"
    /\ svcOp.order.status = "CANCELLED"

\* C11: after order O (hash h1) is cancelled the dispatcher has a CANCELLED
\* Notification written and sends a CANCELLED message to O's user, and the flush
\* that follows makes no entry for h1: no volume lookup for it, and the snapshots
\* of its channel hold one entry per other hash of the window only.
C11_CancelledAbsentFromSnapshot ==
    [][/\ CancelDispatched' =>
            LET o == svcOp'.order
            IN  /\ \E i \in DOMAIN svcOp'.effects :
                      /\ svcOp'.effects[i].call = "notificationDao.Create"
                      /\ svcOp'.effects[i].notification.recipient = o.userAddress
                      /\ svcOp'.effects[i].notification.message.messageType =
                            "LENDING_ORDER_CANCELLED"
                /\ \E i \in DOMAIN svcOp'.effects :
                      /\ svcOp'.effects[i].call = "SendLendingOrderMessage"
                      /\ svcOp'.effects[i].msgType = "LENDING_ORDER_CANCELLED"
                      /\ svcOp'.effects[i].addr = o.userAddress
       /\ (CancelDispatched /\ svcOp'.op = "processBulkLendingOrders") =>
            LET o == svcOp.order
                others == {accepted[i].hash : i \in DOMAIN accepted} \ {o.hash}
            IN  /\ LookupsIn(svcOp'.effects, o.hash) = {}
                /\ EntriesOn(svcOp'.effects, ChannelOf(o)) =
                      Cardinality({g \in others :
                          \E i \in DOMAIN accepted :
                              /\ accepted[i].hash = g
                              /\ ChannelOf(accepted[i]) = ChannelOf(o)})]_vars

---------------------------------------------------------------------------
(* Properties of the broker consumer                                       *)

\* the storage writes of the last message
Writes(name) == {i \in DOMAIN msgOp.calls : msgOp.calls[i].call = name}

\* C12: a NEW_LENDING_ORDER message is applied as exactly one storage create and a
\* CANCEL_LENDING_ORDER message as exactly one storage cancel, of the decoded order;
\* a message whose data does not decode makes no storage write (and is not tried
\* again); a message of any other type makes no storage write.
C12_CreateCancelWrites ==
    msgOp.op = "HandleLendingOrdersCreateCancel" =>
        /\ (msgOp.type = "NEW_LENDING_ORDER" /\ msgOp.data.closed) =>
              /\ Len(msgOp.calls) = 1
              /\ msgOp.calls[1].call = "AddNewLendingOrder"
              /\ msgOp.calls[1].order = msgOp.data.fields
        /\ (msgOp.type = "CANCEL_LENDING_ORDER" /\ msgOp.data.closed) =>
              /\ Len(msgOp.calls) = 1
              /\ msgOp.calls[1].call = "CancelLendingOrder"
              /\ msgOp.calls[1].order = msgOp.data.fields
        /\ ~msgOp.data.closed => msgOp.calls = <<>>
        /\ msgOp.type \notin {"NEW_LENDING_ORDER", "CANCEL_LENDING_ORDER"} =>
              /\ msgOp.calls = <<>>
              /\ msgOp.ret = NoErr

\* a NEW_LENDING_ORDER message whose data was cut off has been dropped
C12_Witness ==
    /\ msgOp.op = "HandleLendingOrdersCreateCancel"
    /\ msgOp.type = "NEW_LENDING_ORDER"
    /\ ~msgOp.data.closed
    /\ msgOp.calls = <<>>
    /\ msgOp.ret # NoErr

---------------------------------------------------------------------------
(* Properties of the watcher's publish                                     *)

\* C13: when the broker publish of a mapped response fails, HandleDocumentType
\* returns that failure to its caller; it returns nil when the publish succeeds
\* and when nothing is published.
C13_PublishFailureReturned ==
    svcOp.op = "HandleDocumentType" =>
        IF svcOp.effects = <<>> THEN svcOp.ret = NoErr
        ELSE /\ Len(svcOp.effects) = 1
             /\ svcOp.effects[1].call = "PublishLendingOrderResponse"
             /\ svcOp.ret = svcOp.effects[1].err

\* the publish of a mapped response failed and the watcher was handed the failure
C13_Witness ==
    /\ svcOp.op = "HandleDocumentType"
    /\ Len(svcOp.effects) = 1
    /\ svcOp.effects[1].err = "publish failed"
    /\ svcOp.ret = "publish failed"

---------------------------------------------------------------------------
(* Properties of the dispatcher                                            *)

\* the order stored in buffer buf for order o's channel and hash, if any
Buffered(buf, o) ==
    IF MapHas(buf, ChannelOf(o))
    THEN IF MapHas(buf[ChannelOf(o)], o.hash) THEN buf[ChannelOf(o)][o.hash] ELSE NilOrder
    ELSE NilOrder

\* C14: whichever handler ran, HandleLendingOrderResponse inserts the response's
\* order into the bulk buffer when the status is not ERROR (leaving the other
\* entries alone), and leaves the buffer as it was when the status is ERROR.
C14_NonErrorBuffered ==
    [][svcOp'.op = "HandleLendingOrderResponse" =>
          IF svcOp'.status # "ERROR_STATUS"
          THEN /\ Buffered(bulkLendingOrders', svcOp'.order) = svcOp'.order
               /\ accepted' = Append(accepted, svcOp'.order)
               /\ \A h \in Hashes \ {svcOp'.order.hash}, st \in {"OPEN", "CANCELLED"} :
                     Buffered(bulkLendingOrders', LendingOrder(h, st)) =
                        Buffered(bulkLendingOrders, LendingOrder(h, st))
          ELSE /\ bulkLendingOrders' = bulkLendingOrders
               /\ accepted' = accepted]_vars

\* an ERROR response has been dispatched while another order stays buffered
C14_Witness ==
    /\ svcOp.op = "HandleLendingOrderResponse"
    /\ svcOp.status = "ERROR_STATUS"
    /\ accepted # <<>>
    /\ Buffered(bulkLendingOrders, svcOp.order) = NilOrder

\* the statuses whose handler is not one of the two placeholders
NotifyingStatuses ==
    DispatchedStatuses \ {"LENDING_ORDER_PARTIALLY_FILLED", "LENDING_ORDER_FILLED"}

\* the positions of the messages the last call addressed to a user
AddressedSends == Calls("SendLendingOrderMessage") \cup Calls("SendNotificationMessage")

\* C15: for every dispatched status other than PARTIALLY_FILLED and FILLED the
\* handler first has a Notification written and only afterwards sends to the
\* order's user: no addressed message precedes the Notification write.
C15_PersistBeforeSend ==
    (/\ svcOp.op = "HandleLendingOrderResponse"
     /\ svcOp.status \in NotifyingStatuses) =>
        /\ Calls("notificationDao.Create") # {}
        /\ AddressedSends # {}
        /\ \A i \in AddressedSends : \E c \in Calls("notificationDao.Create") : c < i

\* C16: each dispatched event whose handler is not a placeholder creates exactly one
\* Notification: its recipient is the order's user, its description the order's
\* hash, and its message type the status that triggered the dispatch.
C16_OneNotificationPerEvent ==
    (/\ svcOp.op = "HandleLendingOrderResponse"
     /\ svcOp.status \in NotifyingStatuses) =>
        /\ Cardinality(Calls("notificationDao.Create")) = 1
        /\ \A i \in Calls("notificationDao.Create") :
              /\ svcOp.effects[i].notification.recipient = svcOp.order.userAddress
              /\ svcOp.effects[i].notification.message.description = Hex(svcOp.order.hash)
              /\ svcOp.effects[i].notification.message.messageType = svcOp.status

\* C17: dispatching a PARTIALLY_FILLED or FILLED response does nothing in its
\* handler (no Notification, no addressed message, no other call); all that
\* HandleLendingOrderResponse does for it is to put the order in the bulk buffer.
C17_PlaceholdersOnlyBuffer ==
    [][(/\ svcOp'.op = "HandleLendingOrderResponse"
        /\ svcOp'.status \in {"LENDING_ORDER_PARTIALLY_FILLED", "LENDING_ORDER_FILLED"}) =>
          /\ svcOp'.effects = <<>>
          /\ svcOp'.ret = NoErr
          /\ Buffered(bulkLendingOrders', svcOp'.order) = svcOp'.order
          /\ BufferedHashes(bulkLendingOrders') =
                BufferedHashes(bulkLendingOrders) \cup {svcOp'.order.hash}
          /\ UNCHANGED <<regVars, inVars, lockVars, taskVars, rlVars>>]_vars

\* a FILLED response has been dispatched: nothing called, the order buffered
C17_Witness ==
    /\ svcOp.op = "HandleLendingOrderResponse"
    /\ svcOp.status = "LENDING_ORDER_FILLED"
    /\ svcOp.effects = <<>>
    /\ Buffered(bulkLendingOrders, svcOp.order) = svcOp.order

\* the statuses whose handler looks the trade up
TradeStatuses == {"LENDING_ORDER_REPAYED", "LENDING_ORDER_TOPUPED", "LENDING_ORDER_RECALLED"}

\* C18: for REPAYED, TOPUPED and RECALLED the dispatcher fetches the trade by the
\* order's hash, after the Notification write, and sends what it fetched to the
\* order's user in a message of the same event type; no other status looks a
\* trade up.
C18_TradeFetchedAndSent ==
    svcOp.op = "HandleLendingOrderResponse" =>
        IF svcOp.status \in TradeStatuses
        THEN /\ Cardinality(Calls("lendingTradeDao.GetByHash")) = 1
             /\ \A g \in Calls("lendingTradeDao.GetByHash") :
                   /\ svcOp.effects[g].hash = svcOp.order.hash
                   /\ \E c \in Calls("notificationDao.Create") : c < g
                   /\ \E m \in Calls("SendLendingOrderMessage") :
                         /\ m > g
                         /\ svcOp.effects[m].msgType = svcOp.status
                         /\ svcOp.effects[m].addr = svcOp.order.userAddress
                         /\ svcOp.effects[m].payload =
                               LendingTrade(svcOp.order.hash, svcOp.effects[g].err)
        ELSE Calls("lendingTradeDao.GetByHash") = {}

\* a RECALLED response has been dispatched and the trade it fetched sent to the user
C18_Witness ==
    /\ svcOp.op = "HandleLendingOrderResponse"
    /\ svcOp.status = "LENDING_ORDER_RECALLED"
    /\ \E g \in Calls("lendingTradeDao.GetByHash"), m \in Calls("SendLendingOrderMessage") :
          /\ m > g
          /\ svcOp.effects[g].err = NoErr
          /\ svcOp.effects[m].payload = [tradeOf |-> svcOp.order.hash]

\* the positions of the calls of one kind among the calls es
CallsIn(es, name) == {i \in DOMAIN es : es[i].call = name}

\* the positions among the calls es of the storage calls that failed
FailedIn(es) ==
    {i \in CallsIn(es, "notificationDao.Create") \cup CallsIn(es, "lendingTradeDao.GetByHash")
           \cup CallsIn(es, "GetLendingOrderBookInterest") : es[i].err # NoErr}

\* C19: a single event's internal failure is never propagated. When the
\* Notification write or the trade lookup fails, HandleLendingOrderResponse still
\* returns nil, still sends the order message to the order's user and still
\* forwards the order of a non-ERROR response to the bulk buffer; when a volume
\* lookup fails, the flush still broadcasts the snapshot of the order's channel;
\* and the event dispatched after a failure is notified and sent as usual.
C19_FailuresNotPropagated ==
    [][/\ svcOp'.op = "HandleLendingOrderResponse" =>
            /\ svcOp'.ret = NoErr
            /\ FailedIn(svcOp'.effects) # {} =>
                  /\ \E m \in CallsIn(svcOp'.effects, "SendLendingOrderMessage") :
                        svcOp'.effects[m].addr = svcOp'.order.userAddress
                  /\ svcOp'.status # "ERROR_STATUS" =>
                        Buffered(bulkLendingOrders', svcOp'.order) = svcOp'.order
       /\ svcOp'.op = "processBulkLendingOrders" =>
            /\ svcOp'.ret = NoErr
            /\ \A i \in FailedIn(svcOp'.effects) :
                  \E b \in CallsIn(svcOp'.effects, "BroadcastMessage") :
                      /\ b > i
                      /\ svcOp'.effects[b].channelID = ChannelOf(svcOp'.effects[i].order)
                      /\ Len(svcOp'.effects[b].payload.borrow)
                            + Len(svcOp'.effects[b].payload.lend) >= 1
       /\ (/\ FailedIn(svcOp.effects) # {}
           /\ svcOp'.op = "HandleLendingOrderResponse"
           /\ svcOp'.status \in NotifyingStatuses \ {"LENDING_ORDER_REJECTED"}) =>
            /\ CallsIn(svcOp'.effects, "notificationDao.Create") # {}
            /\ CallsIn(svcOp'.effects, "SendLendingOrderMessage") # {}
            /\ CallsIn(svcOp'.effects, "SendNotificationMessage") # {}]_vars

\* a CANCELLED response whose Notification write failed: the message was sent, nil
\* returned and the order buffered
C19_Witness ==
    /\ svcOp.op = "HandleLendingOrderResponse"
    /\ svcOp.status = "LENDING_ORDER_CANCELLED"
    /\ \E c \in Calls("notificationDao.Create"), m \in Calls("SendLendingOrderMessage") :
          /\ svcOp.effects[c].err # NoErr
          /\ c < m
    /\ svcOp.ret = NoErr
    /\ Buffered(bulkLendingOrders, svcOp.order) = svcOp.order

---------------------------------------------------------------------------
(* Properties of the bulk buffer's mutex                                   *)

\* the flush goroutine is inside a storage lookup or inside BroadcastMessage
FlushInIO == flushTask.at \in {"lookup", "broadcast"}

\* C20: the flush task holds the buffer's lock only to swap the buffer, never
\* during a storage volume lookup or the BroadcastMessage call; so a producer in
\* saveBulkLendingOrders never waits for a lookup or a broadcast to finish.
C20_LockHeldOnlyForSwap ==
    /\ FlushInIO => mutext # "flush"
    /\ FlushInIO => saveTask.at # "blocked"

\* the flush goroutine has finished its range and is about to replace the buffer
FlushEnds == flushTask.at = "range" /\ flushTask.todo = <<>>

\* the positions in the window of the responses accepted for hash h
WindowAt(h) == {i \in DOMAIN accepted : accepted[i].hash = h}

\* C21: under any interleaving of producers with the flush, every accepted response
\* is reflected in exactly one flush cycle: the snapshots of a flush cover the
\* responses accepted since the previous flush, each hash once and with its last
\* value, nothing else, and the buffer is left empty, so that nothing is lost
\* and nothing is emitted again by a later flush.
C21_EveryResponseInOneFlush ==
    [][(FlushEnds /\ flushTask'.at = "sleep") =>
          /\ \A i \in DOMAIN accepted :
                LET h == accepted[i].hash
                    es == {k \in DOMAIN flushTask.emitted : flushTask.emitted[k].hash = h}
                IN  /\ Cardinality(es) = 1
                    /\ \A k \in es : flushTask.emitted[k] = accepted[Max(WindowAt(h))]
          /\ \A k \in DOMAIN flushTask.emitted : WindowAt(flushTask.emitted[k].hash) # {}
          /\ bulkLendingOrders' = EmptyMap
          /\ accepted' = <<>>]_vars

\* a flush has covered the accepted response while a producer waits for the mutex
C21_Witness ==
    /\ FlushEnds
    /\ accepted # <<>>
    /\ Len(flushTask.emitted) >= 1
    /\ flushTask.emitted[1] = accepted[Len(accepted)]
    /\ saveTask.at = "blocked"

---------------------------------------------------------------------------
(* Properties of the snapshot                                              *)

\* the channel keys with a pending order when the last flush ran
WindowChannels == {ChannelOf(svcOp.window[i]) : i \in DOMAIN svcOp.window}

\* the pending orders of channel p and side `side`: the last value of each hash
PendingOf(p, side) ==
    {LastAccepted(h) : h \in {g \in WindowHashes :
        ChannelOf(LastAccepted(g)) = p /\ LastAccepted(g).side = side}}

\* C22: for every channel key with a pending order a flush emits exactly one
\* snapshot on that channel, named with the key; every pending BORROW order
\* contributes one {interest, amount} entry to the borrow list and every pending
\* LEND order one to the lend list, the amount being the volume looked up for the
\* order's (term, lending token, interest, side).
C22_SnapshotPerChannel ==
    FlushDone =>
        /\ \A b \in Calls("BroadcastMessage") : svcOp.effects[b].channelID \in WindowChannels
        /\ \A p \in WindowChannels :
              /\ Cardinality(BroadcastsOn(p)) = 1
              /\ \A b \in BroadcastsOn(p) :
                    /\ svcOp.effects[b].payload.name = p
                    /\ Len(svcOp.effects[b].payload.borrow) =
                          Cardinality(PendingOf(p, "BORROW"))
                    /\ Len(svcOp.effects[b].payload.lend) = Cardinality(PendingOf(p, "LEND"))
                    /\ \A side \in {"BORROW", "LEND"} :
                          \A o \in PendingOf(p, side) :
                              /\ Cardinality(LookupsFor(o.hash)) = 1
                              /\ \A i \in LookupsFor(o.hash) :
                                    /\ i < b
                                    /\ svcOp.effects[i].term = o.term
                                    /\ svcOp.effects[i].lendingToken = o.lendingToken
                                    /\ svcOp.effects[i].interest = o.interest
                                    /\ svcOp.effects[i].side = side
                                    /\ HasEntry(ListOf(b, side), EntryFor(o, i))

\* a flush has emitted one snapshot with a borrow entry and a lend entry
C22_Witness ==
    /\ FlushDone
    /\ \E b \in Calls("BroadcastMessage") :
          /\ Len(svcOp.effects[b].payload.borrow) = 1
          /\ Len(svcOp.effects[b].payload.lend) = 1
          /\ svcOp.effects[b].payload.lend[1].amount = <<"2", "5", "0">>

---------------------------------------------------------------------------
(* Properties of the watcher tasks                                         *)

\* a step in which the watcher of one document type fails to open its stream
OpenFails(docType) ==
    /\ watcher[docType] = "opening"
    /\ process = "running"
    /\ \/ watcher'[docType] = "returned"
       \/ process' = "panicked"

\* C23: when the change stream of one document type fails to open, only that
\* watcher terminates: the process keeps running, the other three watchers stay
\* where they were and can go on, and the flush task can still wake up
C23_OpenFailureIsolated ==
    [][\A docType \in DocTypes :
          OpenFails(docType) =>
              /\ process' = "running"
              /\ watcher'[docType] = "returned"
              /\ \A other \in DocTypes \ {docType} : watcher'[other] = watcher[other]]_vars

\* C24: once the shutdown signal is raised, every running watcher eventually leaves
\* its loop and terminates
C24_WatchersCancellable ==
    [](shutdown => <>(\A docType \in DocTypes : watcher[docType] # "running"))

---------------------------------------------------------------------------
(* Properties of the registry's mutexes                                    *)

\* goroutine t is inside the statements that write the inner map of channelID
Mutates(t, channelID) ==
    /\ regTask[t].at = "body"
    /\ regTask[t].channelID = channelID

\* goroutine t ranges over the inner map of channelID
Iterates(t, channelID) ==
    /\ regTask[t].op = "BroadcastMessage"
    /\ regTask[t].at = "range"
    /\ regTask[t].channelID = channelID

\* C25: every access to the shared indices happens under the lock that guards them:
\* the range of BroadcastMessage over the connection set of a channel never
\* overlaps a Subscribe, UnsubscribeChannel or Unsubscribe that writes that set,
\* and Unsubscribe writes the forward index while it holds both mutexes
\* exclusively.
C25_IndicesGuarded ==
    /\ \A t \in Threads : \A u \in Threads \ {t}, channelID \in ChannelIDs :
          ~(Iterates(t, channelID) /\ Mutates(u, channelID))
    /\ \A t \in Threads :
          (regTask[t].op = "Unsubscribe" /\ regTask[t].at = "body") =>
              /\ subsMutex.writer = t
              /\ subsListMutex.writer = t

\* goroutine t waits for a mutex that goroutine u holds
WaitsFor(t, u) ==
    \/ /\ regTask[t].at = "lockSubs"
       /\ subsMutex.writer = u \/ u \in subsMutex.readers
    \/ /\ regTask[t].at = "lockList"
       /\ subsListMutex.writer = u \/ u \in subsListMutex.readers
    \/ /\ regTask[t].at = "rlockSubs"
       /\ subsMutex.writer = u
    \/ /\ regTask[t].at = "rlockList"
       /\ subsListMutex.writer = u

\* C27: the registry never reaches a state in which two goroutines each wait for a
\* mutex the other one holds, so that neither call can ever return
C27_NoDeadlock ==
    \A t \in Threads : \A u \in Threads \ {t} : ~(WaitsFor(t, u) /\ WaitsFor(u, t))

=============================================================================
